---- MODULE Spec2Model ----
(***************************************************************************)
(* Booking lifecycle of the hotel front desk: the Bookings page            *)
(* (src/src/pages/Bookings.tsx) running in several browser sessions        *)
(* against one store (the bookings and rooms tables with their row-level   *)
(* policies, supabase/migrations).                                         *)
(*                                                                         *)
(* Time is counted in hours since day 0, 00:00 UTC.  A form date d is the  *)
(* day number; the timestamp of "d" is d*24 and of "dTHH:00:00" d*24+HH.   *)
(* The behaviours cover an afternoon of day 1: the clock starts at 12:00   *)
(* UTC and each check-out reads a later hour than the one before.          *)
(***************************************************************************)
EXTENDS Integers, Sequences, FiniteSets, TLC

(* ---------------------------- bounds ---------------------------------- *)
MaxBookings == 2          \* rows the bookings table may hold
MaxNow      == 38         \* the clock stops here

(* ------------------------- fixed universe ----------------------------- *)
Sessions == {"s1", "s2"}
Rooms    == {"r101", "r102"}
Guests   == {"g1"}
NoGuest  == ""            \* an empty guest select: fails the uuid rule
Users    == {"u_admin", "u_recep"}
NoUser   == "null"        \* created_by IS NULL
NoTime   == -1            \* actual_check_out IS NULL
StartOfRun == 36          \* day 1, 12:00 UTC

\* the signed-in user of each session and the offset of its local time zone
SessionUser == [s \in Sessions |-> IF s = "s1" THEN "u_admin" ELSE "u_recep"]
TZ          == [s \in Sessions |-> IF s = "s1" THEN 0 ELSE 0 - 3]

RoomStatus    == {"available", "occupied", "maintenance", "cleaning"}
BookingStatus == {"active", "checked_out", "cancelled"}

VARIABLES
  rev,            \* schema revision: 0 initial policies, 1 owner-only
                  \* bookings, 2 admin-only room writes
  now,            \* the clock
  rooms,          \* table rooms: room -> [status, price_per_night]
  bookings,       \* table bookings: sequence of rows, id = index
  pc,             \* where each session's handler is suspended
  req,            \* the handler's locals (validated form / booking clicked)
  localRooms,     \* React state `rooms` of each session
  localBookings,  \* React state `bookings`: the ids listed as active
  guests,         \* table guests: guest -> [created_by]
  last            \* the last toast shown, with what the store answered in
                  \* that run: [toast, query, write]

vars == <<rev, now, rooms, bookings, pc, req, localRooms, localBookings,
          guests, last>>

NoReq == [kind |-> "none"]

(* ------------------------- row-level policies ------------------------- *)
has_role(u, role) == role = "admin" /\ u = "u_admin"

\* bookings FOR SELECT / FOR UPDATE ... USING
BookingVisible(u, b) == IF rev = 0 THEN TRUE ELSE b.created_by = u

\* bookings FOR INSERT ... WITH CHECK
BookingInsertAllowed(u, b) == IF rev = 0 THEN TRUE ELSE b.created_by = u

\* the policy of the earlier revisions kept: any signed-in user may update
RoomUpdatable_anyAuthenticated(u) == TRUE

\* rooms FOR UPDATE ... USING
RoomUpdatable(u) == IF rev < 2 THEN TRUE ELSE has_role(u, "admin")

\* rooms FOR INSERT ... WITH CHECK
RoomInsertAllowed(u) == IF rev < 2 THEN TRUE ELSE has_role(u, "admin")

\* rooms FOR DELETE ... USING (the initial schema has no such policy)
RoomDeletable(u) ==
  IF rev = 0 THEN FALSE ELSE IF rev = 1 THEN TRUE ELSE has_role(u, "admin")

\* guests FOR DELETE ... USING (the initial schema has no such policy)
GuestDeletable(u, g) == IF rev = 0 THEN FALSE ELSE g.created_by = u

\* CONSTRAINT valid_dates
valid_dates(b) == b.check_out_date > b.check_in_date

(* ------------------------- pure functions ----------------------------- *)
DateTS(d)        == d * 24
DateTimeTS(d, t) == d * 24 + t

\* Math.ceil(a / b) for b > 0
Ceil(a, b) == IF a >= 0 THEN (a + b - 1) \div b ELSE 0 - ((0 - a) \div b)

\* the number of nights taken as a magnitude
calculateTotalPrice_absNights(s, roomId, checkIn, checkOut) ==
  IF roomId \notin DOMAIN localRooms[s]
    THEN 0
    ELSE LET nights == Ceil(DateTS(checkOut) - DateTS(checkIn), 24)
         IN  (IF nights < 0 THEN 0 - nights ELSE nights)
               * localRooms[s][roomId].price_per_night

calculateTotalPrice(s, roomId, checkIn, checkOut) ==
  IF roomId \notin DOMAIN localRooms[s]
    THEN 0
    ELSE Ceil(DateTS(checkOut) - DateTS(checkIn), 24)
           * localRooms[s][roomId].price_per_night

\* the query without its status filter
AvailabilityRows_anyStatus(u, roomId, checkIn, checkOut) ==
  { i \in DOMAIN bookings :
      /\ BookingVisible(u, bookings[i])
      /\ bookings[i].room_id = roomId
      /\ bookings[i].status # "deleted"
      /\ bookings[i].check_in_date <= DateTS(checkOut)
      /\ bookings[i].check_out_date >= DateTS(checkIn) }

\* the rows the availability query returns to user u
AvailabilityRows(u, roomId, checkIn, checkOut) ==
  { i \in DOMAIN bookings :
      /\ BookingVisible(u, bookings[i])
      /\ bookings[i].room_id = roomId
      /\ bookings[i].status = "active"
      /\ bookings[i].check_in_date <= DateTS(checkOut)
      /\ bookings[i].check_out_date >= DateTS(checkIn) }

\* local midnight of the session's current day, as a UTC hour count
Today(s) == ((now + TZ[s]) \div 24) * 24 - TZ[s]

\* a check-out on the check-in date passes
validateDates_sameDayAllowed(s, checkIn, checkOut) ==
  IF DateTS(checkIn) < Today(s) THEN "past_checkin"
  ELSE IF DateTS(checkOut) < DateTS(checkIn) THEN "checkout_before_checkin"
  ELSE "ok"

\* "ok", or the toast validateDates raises
validateDates(s, checkIn, checkOut) ==
  IF DateTS(checkIn) < Today(s) THEN "past_checkin"
  ELSE IF DateTS(checkOut) <= DateTS(checkIn) THEN "checkout_before_checkin"
  ELSE "ok"

bookingSchema(f) == f.guest_id \in Guests /\ f.room_id \in Rooms

Form(g, r, ci, cit, co, cot) ==
  [guest_id |-> g, room_id |-> r, check_in_date |-> ci, check_in_time |-> cit,
   check_out_date |-> co, check_out_time |-> cot]

\* the forms submitted: 14:00 and 12:00 are the form's default times
Forms ==
  { Form("g1", "r101", 2, 12, 3, 14),    \* early check-in, late check-out
    Form("g1", "r101", 1, 12, 2, 14),    \* the same, ending tomorrow 14:00
    Form("g1", "r102", 2, 23, 3, 0),     \* the other room, 23:00 to midnight
    Form(NoGuest, "r101", 1, 14, 3, 12), \* no guest selected
    Form("g1", "r101", 0, 14, 1, 12),    \* check-in yesterday
    Form("g1", "r101", 2, 14, 2, 12) }   \* check-out on the check-in date

\* toast: the message; query: the answer to the availability query ("empty",
\* "rows", "error"); write: the answer to the run's last write ("ok", "error"
\* for a failed call, "denied" for a row the store rejects)
Toast(t, q, w) == [toast |-> t, query |-> q, write |-> w]

\* no toast on screen
NoToast == Toast("none", "none", "none")

availableRooms(s) ==
  { r \in DOMAIN localRooms[s] : localRooms[s][r].status = "available" }

InFlightCreates == Cardinality({ s \in Sessions : pc[s] = "insert" })

(* ------------------------------ Init ---------------------------------- *)
Init ==
  /\ rev = 0
  /\ now = StartOfRun
  /\ rooms = [r \in Rooms |->
               [status |-> "available",
                price_per_night |-> IF r = "r101" THEN 200 ELSE 150]]
  /\ bookings = << >>
  /\ pc = [s \in Sessions |-> "idle"]
  /\ req = [s \in Sessions |-> NoReq]
  /\ localRooms = [s \in Sessions |-> rooms]
  /\ localBookings = [s \in Sessions |-> {}]
  /\ guests = [g \in Guests |-> [created_by |-> NoUser]]
  /\ last = NoToast


(* ------------------------------ loadData ------------------------------ *)
\* loadData with both queries answered: the page state becomes the rows the
\* session's user may see.  (A failed query leaves the list as it was or
\* empty; the page then offers no more than it did before.)
loadData(s) ==
  /\ localBookings' = [localBookings EXCEPT ![s] =
        { i \in DOMAIN bookings' :
            /\ BookingVisible(SessionUser[s], bookings'[i])
            /\ bookings'[i].status = "active" }]
  /\ localRooms' = [localRooms EXCEPT ![s] = rooms']

\* the page is mounted or reloaded
Reload(s) ==
  /\ pc[s] = "idle"
  /\ last = NoToast
  /\ UNCHANGED guests
  /\ UNCHANGED <<rev, now, rooms, bookings, pc, req, last>>
  /\ loadData(s)

(* --------------------------- CreateBooking ---------------------------- *)
\* a checker that answers "available" when the query fails
checkRoomAvailability_defaultAvailable(ok, rows) ==
  IF ~ok THEN TRUE ELSE rows = {}

\* checkRoomAvailability's return value, given the query's { data, error }
checkRoomAvailability(ok, rows) == IF ~ok THEN FALSE ELSE rows = {}

QueryOutcome(ok, rows) ==
  IF ~ok THEN "error" ELSE IF rows = {} THEN "empty" ELSE "rows"

\* handleSubmit up to its first write: zod, validateDates, the availability
\* query, the early returns, the price
Submit(s, f) ==
  /\ pc[s] = "idle"
  /\ last = NoToast
  /\ UNCHANGED guests
  /\ f.room_id \in availableRooms(s)
  /\ Len(bookings) + InFlightCreates < MaxBookings
  /\ UNCHANGED <<rev, now, rooms, bookings, localRooms, localBookings>>
  /\ IF ~bookingSchema(f)
       THEN /\ last' = Toast("validation", "none", "none")
            /\ UNCHANGED <<pc, req>>
       ELSE
       IF validateDates(s, f.check_in_date, f.check_out_date) # "ok"
       THEN /\ last' = Toast(
                 validateDates(s, f.check_in_date, f.check_out_date),
                 "none", "none")
            /\ UNCHANGED <<pc, req>>
       ELSE \E ok \in BOOLEAN :
              LET rows == AvailabilityRows(SessionUser[s], f.room_id,
                             f.check_in_date, f.check_out_date)
              IN IF checkRoomAvailability(ok, rows)
                   THEN /\ pc' = [pc EXCEPT ![s] = "insert"]
                        /\ req' = [req EXCEPT ![s] =
                             [kind |-> "create", form |-> f,
                              query |-> QueryOutcome(ok, rows),
                              total_price |-> calculateTotalPrice(s,
                                 f.room_id, f.check_in_date,
                                 f.check_out_date)]]
                        /\ UNCHANGED last
                   ELSE /\ last' = Toast("conflict",
                                         QueryOutcome(ok, rows), "none")
                        /\ UNCHANGED <<pc, req>>

\* the row with a price worked out again from the timestamps it stores
bookingData_priceFromStoredTimes(s) ==
  LET f == req[s].form
  IN [guest_id |-> f.guest_id,
      room_id |-> f.room_id,
      check_in_date |-> DateTimeTS(f.check_in_date, f.check_in_time),
      check_out_date |-> DateTimeTS(f.check_out_date, f.check_out_time),
      actual_check_out |-> NoTime,
      total_price |->
        Ceil(DateTimeTS(f.check_out_date, f.check_out_time)
               - DateTimeTS(f.check_in_date, f.check_in_time), 24)
          * localRooms[s][f.room_id].price_per_night,
      status |-> "active",
      created_by |-> NoUser]

\* the row handleSubmit sends to the store
bookingData(s) ==
  LET f == req[s].form
  IN [guest_id |-> f.guest_id,
      room_id |-> f.room_id,
      check_in_date |-> DateTimeTS(f.check_in_date, f.check_in_time),
      check_out_date |-> DateTimeTS(f.check_out_date, f.check_out_time),
      actual_check_out |-> NoTime,
      total_price |-> req[s].total_price,
      status |-> "active",
      created_by |-> NoUser]

\* an upsert keyed on the room: the new row takes the place of a row of the
\* same room
InsertBooking_upsertOnRoom(s) ==
  /\ pc[s] = "insert"
  /\ last = NoToast
  /\ UNCHANGED guests
  /\ UNCHANGED <<rev, now, rooms, localRooms, localBookings>>
  /\ \E ok \in BOOLEAN :
       IF /\ ok
          /\ BookingInsertAllowed(SessionUser[s], bookingData(s))
          /\ valid_dates(bookingData(s))
          /\ bookingData(s).room_id \in DOMAIN rooms
          /\ bookingData(s).guest_id \in DOMAIN guests
         THEN /\ bookings' =
                   IF \E k \in DOMAIN bookings :
                        bookings[k].room_id = bookingData(s).room_id
                     THEN [bookings EXCEPT
                             ![CHOOSE k \in DOMAIN bookings :
                                 bookings[k].room_id = bookingData(s).room_id]
                               = bookingData(s)]
                     ELSE Append(bookings, bookingData(s))
              /\ pc' = [pc EXCEPT ![s] = "room_occupied"]
              /\ UNCHANGED <<req, last>>
         ELSE /\ last' = Toast("insert_error", req[s].query,
                                IF ok THEN "denied" ELSE "error")
              /\ pc' = [pc EXCEPT ![s] = "idle"]
              /\ req' = [req EXCEPT ![s] = NoReq]
              /\ UNCHANGED bookings

\* supabase.from("bookings").insert([bookingData])
InsertBooking(s) ==
  /\ pc[s] = "insert"
  /\ last = NoToast
  /\ UNCHANGED guests
  /\ UNCHANGED <<rev, now, rooms, localRooms, localBookings>>
  /\ \E ok \in BOOLEAN :
       IF /\ ok
          /\ BookingInsertAllowed(SessionUser[s], bookingData(s))
          /\ valid_dates(bookingData(s))
          /\ bookingData(s).room_id \in DOMAIN rooms
          /\ bookingData(s).guest_id \in DOMAIN guests
         THEN /\ bookings' = Append(bookings, bookingData(s))
              /\ pc' = [pc EXCEPT ![s] = "room_occupied"]
              /\ UNCHANGED <<req, last>>
         ELSE /\ last' = Toast("insert_error", req[s].query,
                                IF ok THEN "denied" ELSE "error")
              /\ pc' = [pc EXCEPT ![s] = "idle"]
              /\ req' = [req EXCEPT ![s] = NoReq]
              /\ UNCHANGED bookings

\* rooms.update({ status }).eq("id", roomId): the result is not inspected
UpdateRoomStatus(s, roomId, status, ok) ==
  IF ok /\ RoomUpdatable(SessionUser[s]) /\ roomId \in DOMAIN rooms
    THEN [rooms EXCEPT ![roomId].status = status]
    ELSE rooms

\* handleSubmit after the insert: room update, success toast, loadData
RoomOccupied(s) ==
  /\ pc[s] = "room_occupied"
  /\ last = NoToast
  /\ UNCHANGED guests
  /\ UNCHANGED <<rev, now, bookings>>
  /\ \E ok \in BOOLEAN :
       /\ rooms' = UpdateRoomStatus(s, req[s].form.room_id, "occupied", ok)
       /\ last' = Toast("created", req[s].query,
                        IF ok THEN "ok" ELSE "error")
  /\ pc' = [pc EXCEPT ![s] = "idle"]
  /\ req' = [req EXCEPT ![s] = NoReq]
  /\ loadData(s)

(* ------------------------------ CheckOut ------------------------------ *)
\* a row removed by ON DELETE CASCADE keeps its place in the sequence, so
\* that ids stay what they were, and is marked "deleted"
RowExists(id) == id \in DOMAIN bookings /\ bookings[id].status # "deleted"

\* a repeated check-out cancels the booking
UpdateBookingCheckedOut_cancelsWhenRepeated(u, id) ==
  IF RowExists(id) /\ BookingVisible(u, bookings[id])
    THEN [bookings EXCEPT ![id].status =
                            IF bookings[id].status = "active"
                              THEN "checked_out" ELSE "cancelled",
                          ![id].actual_check_out = now]
    ELSE bookings

\* bookings.update({status, actual_check_out}).eq("id", id) as user u
UpdateBookingCheckedOut(u, id) ==
  IF RowExists(id) /\ BookingVisible(u, bookings[id])
    THEN [bookings EXCEPT ![id].status = "checked_out",
                          ![id].actual_check_out = now]
    ELSE bookings

\* a handler that goes on to the room update when the booking update failed
CheckOutBooking_ignoresError(s, id) ==
  /\ pc[s] = "idle"
  /\ last = NoToast
  /\ UNCHANGED guests
  /\ id \in localBookings[s]
  /\ now < MaxNow
  /\ now' = now + 1
  /\ UNCHANGED <<rev, rooms, localRooms, localBookings>>
  /\ \E ok \in BOOLEAN :
       /\ bookings' = IF ok THEN UpdateBookingCheckedOut(SessionUser[s], id)
                           ELSE bookings
       /\ pc' = [pc EXCEPT ![s] = "room_cleaning"]
       /\ req' = [req EXCEPT ![s] =
            [kind |-> "checkout", id |-> id,
             room_id |-> bookings[id].room_id]]
       /\ last' = IF ok THEN last
                       ELSE Toast("checkout_error", "none", "error")

\* handleCheckOut up to the room update
CheckOutBooking(s, id) ==
  /\ pc[s] = "idle"
  /\ last = NoToast
  /\ UNCHANGED guests
  /\ id \in localBookings[s]
  /\ now < MaxNow
  /\ now' = now + 1
  /\ UNCHANGED <<rev, rooms, localRooms, localBookings>>
  /\ \E ok \in BOOLEAN :
       IF ok
         THEN /\ bookings' = UpdateBookingCheckedOut(SessionUser[s], id)
              /\ pc' = [pc EXCEPT ![s] = "room_cleaning"]
              /\ req' = [req EXCEPT ![s] =
                   [kind |-> "checkout", id |-> id,
                    room_id |-> bookings[id].room_id]]
              /\ UNCHANGED last
         ELSE /\ last' = Toast("checkout_error", "none", "error")
              /\ UNCHANGED <<bookings, pc, req>>

\* handleCheckOut after the booking update
RoomCleaning(s) ==
  /\ pc[s] = "room_cleaning"
  /\ last = NoToast
  /\ UNCHANGED guests
  /\ UNCHANGED <<rev, now, bookings>>
  /\ \E ok \in BOOLEAN :
       /\ rooms' = UpdateRoomStatus(s, req[s].room_id, "cleaning", ok)
       /\ last' = Toast("checked_out", "none",
                        IF ok THEN "ok" ELSE "error")
  /\ pc' = [pc EXCEPT ![s] = "idle"]
  /\ req' = [req EXCEPT ![s] = NoReq]
  /\ loadData(s)

(* ----------------------------- Rooms page ----------------------------- *)
NewRooms == {"r103"}      \* a room number not yet in the table

\* roomData: what the room form sends (status and nightly price)
RoomData(st, p) == [status |-> st, price_per_night |-> p]
RoomForms == { RoomData("maintenance", 250) }
EditedRooms  == Rooms                    \* rooms whose edit dialog is saved
DeletedRooms == {"r101"} \cup NewRooms    \* rooms whose delete is clicked

\* handleSubmit with editingRoom set: rooms.update(roomData).eq("id", r)
RoomFormSave(s, r, data) ==
  /\ pc[s] = "idle"
  /\ last = NoToast
  /\ UNCHANGED guests
  /\ r \in DOMAIN rooms
  /\ UNCHANGED <<rev, now, bookings, pc, req, localRooms, localBookings>>
  /\ \E ok \in BOOLEAN :
       IF ok
         THEN /\ rooms' = IF RoomUpdatable(SessionUser[s])
                            THEN [rooms EXCEPT ![r] = data] ELSE rooms
              /\ last' = Toast("room_saved", "none", "ok")
         ELSE /\ last' = Toast("room_save_error", "none", "error")
              /\ UNCHANGED rooms

\* handleSubmit without editingRoom: rooms.insert([roomData])
RoomFormCreate(s, r, data) ==
  /\ pc[s] = "idle"
  /\ last = NoToast
  /\ UNCHANGED guests
  /\ UNCHANGED <<rev, now, bookings, pc, req, localRooms, localBookings>>
  /\ \E ok \in BOOLEAN :
       IF ok /\ RoomInsertAllowed(SessionUser[s]) /\ r \notin DOMAIN rooms
         THEN /\ rooms' = [x \in DOMAIN rooms \cup {r} |->
                             IF x = r THEN data ELSE rooms[x]]
              /\ last' = Toast("room_created", "none", "ok")
         ELSE /\ last' = Toast("room_create_error", "none",
                                IF ok THEN "denied" ELSE "error")
              /\ UNCHANGED rooms

\* bookings.room_id REFERENCES rooms(id) ON DELETE CASCADE
CascadeRoom(r) ==
  [i \in DOMAIN bookings |->
     IF bookings[i].room_id = r
       THEN [bookings[i] EXCEPT !.status = "deleted"]
       ELSE bookings[i]]

\* handleDelete: rooms.delete().eq("id", r)
RoomDelete(s, r) ==
  /\ pc[s] = "idle"
  /\ last = NoToast
  /\ UNCHANGED guests
  /\ r \in DOMAIN rooms
  /\ UNCHANGED <<rev, now, pc, req, localRooms, localBookings>>
  /\ \E ok \in BOOLEAN :
       IF ok
         THEN /\ IF RoomDeletable(SessionUser[s])
                   THEN /\ rooms' = [x \in DOMAIN rooms \ {r} |-> rooms[x]]
                        /\ bookings' = CascadeRoom(r)
                   ELSE UNCHANGED <<rooms, bookings>>
              /\ last' = Toast("room_deleted", "none", "ok")
         ELSE /\ last' = Toast("room_delete_error", "none", "error")
              /\ UNCHANGED <<rooms, bookings>>

(* ------------------------ Rooms page: edit dialog --------------------- *)
DialogRooms    == {"r101"}
DialogPrices   == {250}
DialogStatuses == {"maintenance"}

\* the Rooms page is opened (loadRooms) and the pencil of a room clicked:
\* openEditDialog copies the listed room into formData
openEditDialog(s, r) ==
  /\ pc[s] = "idle"
  /\ last = NoToast
  /\ UNCHANGED guests
  /\ r \in DOMAIN rooms
  /\ pc' = [pc EXCEPT ![s] = "edit_dialog"]
  /\ req' = [req EXCEPT ![s] =
               [kind |-> "edit", room |-> r,
                formData |-> [status |-> rooms[r].status,
                              price_per_night |-> rooms[r].price_per_night],
                touched |-> {}]]
  /\ UNCHANGED <<rev, now, rooms, bookings, localRooms, localBookings, last>>

\* setFormData({ ...formData, [field]: value }) from an input of the dialog
setFormData(s, field, value) ==
  /\ pc[s] = "edit_dialog"
  /\ last = NoToast
  /\ UNCHANGED guests
  /\ field \notin req[s].touched
  /\ req' = [req EXCEPT ![s].formData[field] = value,
                         ![s].touched = @ \cup {field}]
  /\ UNCHANGED <<rev, now, rooms, bookings, pc, localRooms, localBookings,
                 last>>

\* handleSubmit with editingRoom set, from the open dialog: the whole
\* formData goes into rooms.update(roomData).eq("id", editingRoom.id)
handleSubmitEdit(s) ==
  /\ pc[s] = "edit_dialog"
  /\ last = NoToast
  /\ UNCHANGED guests
  /\ UNCHANGED <<rev, now, bookings, localRooms, localBookings>>
  /\ \E ok \in BOOLEAN :
       IF ok
         THEN /\ rooms' = IF /\ req[s].room \in DOMAIN rooms
                             /\ RoomUpdatable(SessionUser[s])
                            THEN [rooms EXCEPT ![req[s].room] =
                                    req[s].formData]
                            ELSE rooms
              /\ last' = Toast("room_saved", "none", "ok")
              /\ pc' = [pc EXCEPT ![s] = "idle"]
              /\ req' = [req EXCEPT ![s] = NoReq]
         ELSE /\ last' = Toast("room_save_error", "none", "error")
              /\ UNCHANGED <<rooms, pc, req>>

\* "Cancelar": resetForm closes the dialog
resetForm(s) ==
  /\ pc[s] = "edit_dialog"
  /\ last = NoToast
  /\ UNCHANGED guests
  /\ pc' = [pc EXCEPT ![s] = "idle"]
  /\ req' = [req EXCEPT ![s] = NoReq]
  /\ UNCHANGED <<rev, now, rooms, bookings, localRooms, localBookings, last>>

(* ----------------------------- Guests page ---------------------------- *)
\* bookings.guest_id REFERENCES guests(id) ON DELETE CASCADE
CascadeGuest(g) ==
  [i \in DOMAIN bookings |->
     IF bookings[i].guest_id = g
       THEN [bookings[i] EXCEPT !.status = "deleted"]
       ELSE bookings[i]]

\* handleDelete: guests.delete().eq("id", g)
GuestDelete(s, g) ==
  /\ pc[s] = "idle"
  /\ last = NoToast
  /\ UNCHANGED <<rev, now, rooms, pc, req, localRooms, localBookings>>
  /\ \E ok \in BOOLEAN :
       IF ok
         THEN /\ IF g \in DOMAIN guests
                     /\ GuestDeletable(SessionUser[s], guests[g])
                   THEN /\ guests' = [x \in DOMAIN guests \ {g} |-> guests[x]]
                        /\ bookings' = CascadeGuest(g)
                   ELSE UNCHANGED <<guests, bookings>>
              /\ last' = Toast("guest_deleted", "none", "ok")
         ELSE /\ last' = Toast("guest_delete_error", "none", "error")
              /\ UNCHANGED <<guests, bookings>>

(* ------------------------- environment steps -------------------------- *)
\* the toast shown by the last handler goes away; a toast is read before the
\* next step is taken, so every other step waits for it
DismissToast ==
  /\ last # NoToast
  /\ last' = NoToast
  /\ UNCHANGED <<rev, now, rooms, bookings, pc, req, localRooms,
                 localBookings, guests>>

\* the next migration is applied, between two requests
Migrate ==
  /\ rev < 2
  /\ \A s \in Sessions : pc[s] = "idle"
  /\ last = NoToast
  /\ UNCHANGED guests
  /\ rev' = rev + 1
  /\ UNCHANGED <<now, rooms, bookings, pc, req, localRooms, localBookings,
                 last>>

Next ==
  \/ \E s \in Sessions : Reload(s)
  \/ \E s \in Sessions, f \in Forms : Submit(s, f)
  \/ \E s \in Sessions : InsertBooking(s)
  \/ \E s \in Sessions : RoomOccupied(s)
  \/ \E s \in Sessions, id \in 1..MaxBookings : CheckOutBooking(s, id)
  \/ \E s \in Sessions : RoomCleaning(s)
  \/ Migrate
  \/ DismissToast

Spec == Init /\ [][Next]_vars

(* ----------- the Bookings page with guests being deleted ------------- *)
NextGuests ==
  \/ Next
  \/ \E s \in Sessions, g \in Guests : GuestDelete(s, g)

SpecGuests == Init /\ [][NextGuests]_vars

(* ------- the Bookings page next to the edit dialog, first schema ------ *)
Clerk   == "s2"    \* at the Bookings page
Manager == "s1"    \* at the Rooms page

NextDesk ==
  \/ Reload(Clerk)
  \/ \E f \in Forms : Submit(Clerk, f)
  \/ InsertBooking(Clerk)
  \/ RoomOccupied(Clerk)
  \/ \E id \in 1..MaxBookings : CheckOutBooking(Clerk, id)
  \/ RoomCleaning(Clerk)
  \/ DismissToast
  \/ \E r \in DialogRooms : openEditDialog(Manager, r)
  \/ \E p \in DialogPrices : setFormData(Manager, "price_per_night", p)
  \/ \E st \in DialogStatuses : setFormData(Manager, "status", st)
  \/ handleSubmitEdit(Manager)
  \/ resetForm(Manager)

SpecDesk == Init /\ [][NextDesk]_vars

(* ------------- the total shown in the form while it is filled -------- *)
Prices     == {0, 150, 200}
QuoteDays  == 0..3
QuoteRooms == Rooms \cup NewRooms

InitPrice ==
  /\ rev = 0
  /\ now = StartOfRun
  /\ rooms \in [Rooms -> {[status |-> "available", price_per_night |-> p] :
                            p \in Prices}]
  /\ bookings = << >>
  /\ pc = [s \in Sessions |-> "idle"]
  /\ req = [s \in Sessions |-> NoReq]
  /\ localRooms = [s \in Sessions |-> rooms]
  /\ localBookings = [s \in Sessions |-> {}]
  /\ guests = [g \in Guests |-> [created_by |-> NoUser]]
  /\ last = NoToast

\* "Valor Total": rendered once room and both dates are filled in
Quote(s, roomId, checkIn, checkOut) ==
  /\ pc[s] = "idle"
  /\ req' = [req EXCEPT ![s] =
               [kind |-> "quote", room_id |-> roomId,
                check_in |-> checkIn, check_out |-> checkOut,
                total_price |->
                  calculateTotalPrice(s, roomId, checkIn, checkOut)]]
  /\ UNCHANGED <<rev, now, rooms, bookings, pc, localRooms, localBookings,
                 guests, last>>

NextPrice ==
  \E s \in Sessions, r \in QuoteRooms, ci \in QuoteDays, co \in QuoteDays :
    Quote(s, r, ci, co)

SpecPrice == InitPrice /\ [][NextPrice]_vars

(* ------------------ one actor, one operation at a time ---------------- *)
Solo == "s1"

NextSolo ==
  \/ Reload(Solo)
  \/ \E f \in Forms : Submit(Solo, f)
  \/ InsertBooking(Solo)
  \/ RoomOccupied(Solo)
  \/ \E id \in 1..MaxBookings : CheckOutBooking(Solo, id)
  \/ RoomCleaning(Solo)
  \/ Migrate
  \/ DismissToast

SpecSolo == Init /\ [][NextSolo]_vars

(* -------- the Rooms page next to the Bookings page, final schema ------- *)
\* every migration is applied; the booking of r101 made under the initial
\* policies is still active and both sessions list it (a state Spec reaches:
\* s1 books r101, s2 reloads, the two migrations follow)
InitRooms ==
  /\ rev = 2
  /\ now = StartOfRun
  /\ rooms = [r \in Rooms |->
               [status |-> IF r = "r101" THEN "occupied" ELSE "available",
                price_per_night |-> IF r = "r101" THEN 200 ELSE 150]]
  /\ bookings = << [guest_id |-> "g1", room_id |-> "r101",
                    check_in_date |-> DateTimeTS(2, 12),
                    check_out_date |-> DateTimeTS(3, 14),
                    actual_check_out |-> NoTime, total_price |-> 200,
                    status |-> "active", created_by |-> NoUser] >>
  /\ pc = [s \in Sessions |-> "idle"]
  /\ req = [s \in Sessions |-> NoReq]
  /\ localRooms = [s \in Sessions |-> rooms]
  /\ localBookings = [s \in Sessions |-> {1}]
  /\ guests = [g \in Guests |-> [created_by |-> NoUser]]
  /\ last = NoToast

NextRooms ==
  \/ \E s \in Sessions : Reload(s)
  \/ \E s \in Sessions, f \in Forms : Submit(s, f)
  \/ \E s \in Sessions : InsertBooking(s)
  \/ \E s \in Sessions, id \in 1..MaxBookings : CheckOutBooking(s, id)
  \/ \E s \in Sessions : RoomCleaning(s)
  \/ DismissToast
  \/ \E s \in Sessions, r \in EditedRooms, d \in RoomForms :
       RoomFormSave(s, r, d)
  \/ \E s \in Sessions, r \in NewRooms, d \in RoomForms :
       RoomFormCreate(s, r, d)
  \/ \E s \in Sessions, r \in DeletedRooms : RoomDelete(s, r)

SpecRooms == InitRooms /\ [][NextRooms]_vars

TypeOK ==
  /\ rev \in 0..2
  /\ now \in 0..MaxNow
  /\ \A r \in DOMAIN rooms : rooms[r].status \in RoomStatus
  /\ \A i \in DOMAIN bookings :
       bookings[i].status \in BookingStatus \cup {"deleted"}
  /\ \A s \in Sessions : pc[s] \in {"idle", "insert", "room_occupied",
                                    "room_cleaning", "edit_dialog"}


(* ====================================================================== *)
(*                              Properties                                *)
(* ====================================================================== *)
\* the overlap test of the availability query, on two stored intervals
Overlap(ci1, co1, ci2, co2) == ci1 <= co2 /\ co1 >= ci2

ActiveOverlap(i, j) ==
  /\ bookings[i].status = "active"
  /\ bookings[j].status = "active"
  /\ bookings[i].room_id = bookings[j].room_id
  /\ Overlap(bookings[i].check_in_date, bookings[i].check_out_date,
             bookings[j].check_in_date, bookings[j].check_out_date)

\* the form passes zod and validateDates in session s
ValidForm(s, f) ==
  /\ bookingSchema(f)
  /\ validateDates(s, f.check_in_date, f.check_out_date) = "ok"

\* some active booking of the room overlaps the timestamps the form asks for
Covered(f) ==
  \E i \in DOMAIN bookings :
    /\ bookings[i].status = "active"
    /\ bookings[i].room_id = f.room_id
    /\ Overlap(bookings[i].check_in_date, bookings[i].check_out_date,
               DateTimeTS(f.check_in_date, f.check_in_time),
               DateTimeTS(f.check_out_date, f.check_out_time))

\* some active booking of the room, whoever created it, overlaps the dates
\* handed to the checker
DateOverlapExists(f) ==
  \E i \in DOMAIN bookings :
    /\ bookings[i].status = "active"
    /\ bookings[i].room_id = f.room_id
    /\ Overlap(bookings[i].check_in_date, bookings[i].check_out_date,
               DateTS(f.check_in_date), DateTS(f.check_out_date))

\* C1: in every reachable state no two distinct active bookings of one room
\* have stored intervals that overlap under the checker's test.
C1_NoDoubleBooking ==
  \A i, j \in DOMAIN bookings : i # j => ~ActiveOverlap(i, j)

\* C2: a CreateBooking that passed validation and the availability check
\* completes with success unless a store call fails: the insert is accepted,
\* the success toast is shown and the room is 'occupied' in the store when
\* the handler returns, whoever the actor is.
C2_CreateSucceedsRoomOccupied ==
  [][\A s \in Sessions :
       /\ (InsertBooking(s) /\ ~(last'.toast = "insert_error"
                                 /\ last'.write = "error"))
            => pc'[s] = "room_occupied"
       /\ (RoomOccupied(s) /\ last'.write = "ok")
            => /\ last'.toast = "created"
               /\ rooms'[req[s].form.room_id].status = "occupied"]_vars

\* C3: a CreateBooking whose requested interval is covered, fully or partly,
\* by an active booking of the room ends with the conflict toast and writes
\* nothing.
C3_CoveredRequestConflicts ==
  [][\A s \in Sessions, f \in Forms :
       (Submit(s, f) /\ ValidForm(s, f) /\ Covered(f))
         => /\ pc'[s] = "idle"
            /\ last'.toast = "conflict"
            /\ UNCHANGED <<bookings, rooms>>]_vars

\* C4: a CheckOut of a booking that is no longer active yields an error and
\* changes nothing: the handler stops before the room write and the booking
\* row (its actual_check_out) stays as it was.
C4_SecondCheckOutRejected ==
  [][\A s \in Sessions, id \in DOMAIN bookings :
       (CheckOutBooking(s, id) /\ bookings[id].status # "active")
         => /\ bookings' = bookings
            /\ pc'[s] = "idle"
            /\ last'.toast = "checkout_error"]_vars

\* the timestamps form f asks for
FormCheckIn(f)  == DateTimeTS(f.check_in_date, f.check_in_time)
FormCheckOut(f) == DateTimeTS(f.check_out_date, f.check_out_time)

\* two forms ask for the same room and for intervals that overlap
SameRoomOverlap(f, g) ==
  /\ f.room_id = g.room_id
  /\ Overlap(FormCheckIn(f), FormCheckOut(f), FormCheckIn(g), FormCheckOut(g))

\* row i of table b is the active booking form f asks for
RowOf(b, i, f) ==
  /\ b[i].status = "active"
  /\ b[i].room_id = f.room_id
  /\ b[i].check_in_date = FormCheckIn(f)
  /\ b[i].check_out_date = FormCheckOut(f)

\* C5: two CreateBookings of different sessions for the same room and
\* overlapping intervals, each having read "available": when the insert of
\* the second is accepted while the booking of the first is in the table,
\* the table holds two distinct active bookings of the room that overlap.
C5_RaceDoubleBooks ==
  [][\A s, t \in Sessions :
       (/\ s # t
        /\ pc[s] = "insert" /\ pc[t] = "room_occupied"
        /\ SameRoomOverlap(req[s].form, req[t].form)
        /\ \E j \in DOMAIN bookings : RowOf(bookings, j, req[t].form)
        /\ InsertBooking(s)
        /\ pc'[s] = "room_occupied")
         => \E i, j \in DOMAIN bookings' :
              /\ i # j
              /\ RowOf(bookings', i, req[s].form)
              /\ RowOf(bookings', j, req[t].form)
              /\ bookings'[i].check_in_date <= bookings'[j].check_out_date
              /\ bookings'[i].check_out_date >= bookings'[j].check_in_date
    ]_vars

\* C5 witness: under the initial policies both sessions read "available" for
\* requests whose dates collide, both inserts were accepted, and the two
\* bookings are active and overlap.  (Had either read come after the other
\* session's insert it would have returned that row.)
C5_Witness ==
  \E s, t \in Sessions :
    /\ s # t
    /\ rev = 0
    /\ pc[s] = "room_occupied" /\ pc[t] = "room_occupied"
    /\ req[s].query = "empty" /\ req[t].query = "empty"
    /\ req[s].form.room_id = req[t].form.room_id
    /\ Overlap(DateTS(req[s].form.check_in_date),
               DateTS(req[s].form.check_out_date),
               DateTS(req[t].form.check_in_date),
               DateTS(req[t].form.check_out_date))
    /\ \E i, j \in DOMAIN bookings :
         /\ i # j
         /\ RowOf(bookings, i, req[s].form)
         /\ RowOf(bookings, j, req[t].form)
         /\ ActiveOverlap(i, j)

\* C6: a successful CheckOut of an active booking sets the booking to
\* checked_out with actual_check_out = now and then the room to 'cleaning';
\* no step of CheckOut or CreateBooking makes a room 'available'.
C6_CheckOutEffect ==
  [][/\ \A s \in Sessions, id \in DOMAIN bookings :
          (CheckOutBooking(s, id) /\ bookings[id].status = "active"
             /\ pc'[s] = "room_cleaning")
            => /\ bookings'[id].status = "checked_out"
               /\ bookings'[id].actual_check_out = now
     /\ \A s \in Sessions :
          (RoomCleaning(s) /\ last'.write = "ok")
            => /\ last'.toast = "checked_out"
               /\ rooms'[req[s].room_id].status = "cleaning"
     /\ \A r \in Rooms :
          rooms'[r].status = "available" => rooms[r].status = "available"
    ]_vars

\* C7: every stored booking has total_price = nights * price_per_night of
\* its room, nights being the ceiling in whole days of stored check_out_date
\* minus stored check_in_date.
C7_PriceFromStoredInterval ==
  \A i \in DOMAIN bookings :
    bookings[i].total_price =
      Ceil(bookings[i].check_out_date - bookings[i].check_in_date, 24)
        * rooms[bookings[i].room_id].price_per_night

\* C8: when the availability query is answered, the checker reports the room
\* unavailable if and only if some active booking of that room, created by
\* any actor, overlaps the interval it was asked about.
C8_CheckerCountsAllBookings ==
  [][\A s \in Sessions, f \in Forms :
       (Submit(s, f) /\ ValidForm(s, f)
          /\ ~(pc'[s] = "idle" /\ last'.query = "error"))
         => (pc'[s] = "idle" <=> DateOverlapExists(f))]_vars

\* the step is a handleSubmit whose availability query failed
QueryFailedStep(s) ==
  /\ pc[s] = "idle"
  /\ \/ pc'[s] = "idle" /\ last'.query = "error"
     \/ pc'[s] = "insert" /\ req'[s].query = "error"
  /\ \E f \in Forms : ValidForm(s, f) /\ Submit(s, f)

\* C9: when the availability query fails with a storage error CreateBooking
\* aborts: the handler returns without reaching the insert, and no booking
\* row and no room status changes.
C9_FailedQueryAborts ==
  [][\A s \in Sessions :
       QueryFailedStep(s)
         => /\ pc'[s] = "idle"
            /\ UNCHANGED <<bookings, rooms, req>>]_vars

\* C9 witness: a CreateBooking has ended on a failed availability query,
\* with nothing in flight and nothing written.
C9_Witness ==
  /\ last.toast = "conflict" /\ last.query = "error"
  /\ \A s \in Sessions : pc[s] = "idle"
  /\ bookings = << >>

\* C10: what CreateBooking reports when the availability query fails differs
\* from what it reports when an overlapping active booking exists, which is
\* the toast "conflict".
C10_ErrorDistinctFromUnavailable ==
  last.query = "error" => last.toast # "conflict"

\* C11: an active booking has no actual_check_out, a checked_out booking has
\* one, and an actual_check_out that has been written is never written again.
C11_ActualCheckOutWrittenOnce ==
  [][\A i \in DOMAIN bookings' :
       /\ bookings'[i].status = "active"
            => bookings'[i].actual_check_out = NoTime
       /\ bookings'[i].status = "checked_out"
            => bookings'[i].actual_check_out # NoTime
       /\ (i \in DOMAIN bookings /\ bookings[i].actual_check_out # NoTime)
            => bookings'[i].actual_check_out = bookings[i].actual_check_out
    ]_vars

\* C12: whatever the store answers, a CreateBooking that has returned leaves
\* either a new booking with its room 'occupied' or the bookings table and
\* every room status as they were.
C12_CreateAllOrNothing ==
  [][\A s \in Sessions :
       /\ ((\E f \in Forms : Submit(s, f)) /\ pc'[s] = "idle")
            => UNCHANGED <<bookings, rooms>>
       /\ (InsertBooking(s) /\ pc'[s] = "idle")
            => UNCHANGED <<bookings, rooms>>
       /\ RoomOccupied(s)
            => rooms'[req[s].form.room_id].status = "occupied"]_vars

\* the room write of the step failed or matched no row the user may update
RoomWriteLost(s) == last'.write = "error" \/ ~RoomUpdatable(SessionUser[s])

\* C13: when the room-status write after the booking write fails or updates
\* no row, CreateBooking and CheckOut report an error and not success.
C13_RoomWriteFailureReported ==
  [][\A s \in Sessions :
       ((RoomOccupied(s) \/ RoomCleaning(s)) /\ RoomWriteLost(s))
         => last'.toast \notin {"created", "checked_out"}]_vars

\* the calendar date on the wall of session s
LocalDate(s) == (now + TZ[s]) \div 24

\* C14: in every time zone CreateBooking rejects a check-in date as past
\* exactly when it is earlier than the client's current calendar date; a
\* check-in on the current date is accepted.
C14_TodayAcceptedPastRejected ==
  [][\A s \in Sessions, f \in Forms :
       (Submit(s, f) /\ bookingSchema(f))
         => (last'.toast = "past_checkin"
               <=> f.check_in_date < LocalDate(s))]_vars

\* C15: every booking row CreateBooking persists, and every row it sends to
\* the store after the form passed validation, has check_out_date strictly
\* later than check_in_date, whatever the times of day.
C15_StoredIntervalOrdered ==
  /\ \A i \in DOMAIN bookings : valid_dates(bookings[i])
  /\ \A s \in Sessions : pc[s] = "insert" => valid_dates(bookingData(s))

\* C15 witness: a row is stored whose check-in is 23:00 and whose check-out
\* is 00:00 of the next day, the shortest stay the form lets through.
C15_Witness ==
  \E i \in DOMAIN bookings :
    /\ bookings[i].check_in_date % 24 = 23
    /\ bookings[i].check_out_date = bookings[i].check_in_date + 1

\* the calendar day of a stored timestamp
DayOf(ts) == ts \div 24

\* active booking i of the form's room ends on the day the request starts,
\* or starts on the day the request ends
TouchesOnSharedDay(i, f) ==
  /\ bookings[i].status = "active"
  /\ bookings[i].room_id = f.room_id
  /\ \/ DayOf(bookings[i].check_out_date) = f.check_in_date
     \/ DayOf(bookings[i].check_in_date) = f.check_out_date

\* C16: with every booking visible to the checker, a request that shares a
\* calendar day with an active booking of the room, at either end, is
\* reported unavailable.
C16_SharedDayUnavailable ==
  [][\A s \in Sessions, f \in Forms :
       (/\ rev = 0
        /\ Submit(s, f) /\ ValidForm(s, f)
        /\ \E i \in DOMAIN bookings : TouchesOnSharedDay(i, f))
         => /\ pc'[s] = "idle"
            /\ last'.toast = "conflict"]_vars

\* C17: once the owner-only policy is in force, the row CreateBooking sends
\* to the store names the submitting user as created_by, so the insert
\* passes the policy check.
C17_InsertCarriesCreator ==
  \A s \in Sessions :
    (rev >= 1 /\ pc[s] = "insert")
      => /\ bookingData(s).created_by = SessionUser[s]
         /\ BookingInsertAllowed(SessionUser[s], bookingData(s))

\* C19: a CheckOut whose booking id matches no row the actor may update ends
\* with the error toast, goes no further and changes no room status.
C19_CheckOutOfNoRowFails ==
  [][\A s \in Sessions, id \in 1..MaxBookings :
       (/\ CheckOutBooking(s, id)
        /\ ~(id \in DOMAIN bookings
               /\ BookingVisible(SessionUser[s], bookings[id])))
         => /\ pc'[s] = "idle"
            /\ last'.toast = "checkout_error"
            /\ rooms' = rooms]_vars

\* C20: a booking's status changes only from active, to checked_out or to
\* cancelled; a booking that is checked_out or cancelled keeps its status
\* under every operation, a repeated CheckOut from a stale list included.
C20_StatusOnlyLeavesActive ==
  [][\A i \in DOMAIN bookings :
       /\ i \in DOMAIN bookings'
       /\ bookings'[i].status # bookings[i].status
            => /\ bookings[i].status = "active"
               /\ bookings'[i].status \in {"checked_out", "cancelled"}
    ]_vars

\* C20 witness: both sessions have checked out the same booking, the second
\* from a stale list, and both updates reached the row.
C20_Witness ==
  \E i \in DOMAIN bookings :
    /\ rev = 0
    /\ \A s \in Sessions :
         pc[s] = "room_cleaning" /\ req[s].id = i
    /\ bookings[i].status = "checked_out"
    /\ bookings[i].actual_check_out > StartOfRun

NonAdmin(s) == ~has_role(SessionUser[s], "admin")

\* the step is an operation of session s, on either page
StepOf(s) ==
  \/ Reload(s)
  \/ \E f \in Forms : Submit(s, f)
  \/ InsertBooking(s)
  \/ RoomOccupied(s)
  \/ \E id \in 1..MaxBookings : CheckOutBooking(s, id)
  \/ RoomCleaning(s)
  \/ \E r \in EditedRooms, d \in RoomForms : RoomFormSave(s, r, d)
  \/ \E r \in NewRooms, d \in RoomForms : RoomFormCreate(s, r, d)
  \/ \E r \in DeletedRooms : RoomDelete(s, r)

C21_InactiveBookingsDoNotBlock ==
  [][\A s \in Sessions, f \in Forms :
       (/\ Submit(s, f) /\ ValidForm(s, f)
        /\ ~DateOverlapExists(f) /\ ~Covered(f)
        /\ ~(pc'[s] = "idle" /\ last'.query = "error"))
         => /\ pc'[s] = "insert"
            /\ req'[s].query = "empty"]_vars

\* C21 witness: a request has been found available although a checked_out
\* booking of that room, visible to the checker, covers the dates asked for.
C21_Witness ==
  \E s \in Sessions :
    /\ rev = 0
    /\ pc[s] = "insert" /\ req[s].query = "empty"
    /\ \E i \in DOMAIN bookings :
         /\ bookings[i].status = "checked_out"
         /\ bookings[i].room_id = req[s].form.room_id
         /\ Overlap(bookings[i].check_in_date, bookings[i].check_out_date,
                    DateTS(req[s].form.check_in_date),
                    DateTS(req[s].form.check_out_date))
    /\ ~\E i \in DOMAIN bookings :
          bookings[i].status = "active"
            /\ bookings[i].room_id = req[s].form.room_id

\* C22: when the booking update of CheckOut fails with a storage error the
\* handler stops: bookings and rooms stay as they were and the room write is
\* not reached; when the insert of CreateBooking fails the same holds.
C22_FailedBookingWriteStops ==
  [][\A s \in Sessions :
       /\ ((\E id \in 1..MaxBookings : CheckOutBooking(s, id))
             /\ last'.toast = "checkout_error")
            => /\ pc'[s] = "idle"
               /\ UNCHANGED <<bookings, rooms>>
       /\ (InsertBooking(s) /\ last'.toast = "insert_error")
            => /\ pc'[s] = "idle"
               /\ UNCHANGED <<bookings, rooms>>]_vars

\* C22 witness: a CheckOut has ended on the error toast; the booking it was
\* for is still active without actual_check_out and its room still occupied.
C22_Witness ==
  /\ last.toast = "checkout_error" /\ last.write = "error"
  /\ \A s \in Sessions : pc[s] = "idle"
  /\ \E i \in DOMAIN bookings :
       /\ bookings[i].status = "active"
       /\ bookings[i].actual_check_out = NoTime
       /\ rooms[bookings[i].room_id].status = "occupied"

C28_ActiveBookingRoomOccupied ==
  (\A s \in Sessions : pc[s] = "idle")
    => \A i \in DOMAIN bookings :
         bookings[i].status = "active"
           => rooms[bookings[i].room_id].status = "occupied"

\* C30: every insert CreateBooking gets accepted is for a room whose status
\* in the store is 'available' at that moment.
C30_InsertOnlyForAvailableRoom ==
  [][\A s \in Sessions :
       (InsertBooking(s) /\ pc'[s] = "room_occupied")
         => rooms[req[s].form.room_id].status = "available"]_vars

\* two stored intervals [ci, co) share some time
StoredOverlap(i, j) ==
  /\ bookings[i].check_in_date < bookings[j].check_out_date
  /\ bookings[j].check_in_date < bookings[i].check_out_date

\* C26: with a single actor running its operations one after another, no
\* two active bookings of a room have stored timestamp intervals that
\* overlap, whatever the times of day.
C26_SoloNoStoredOverlap ==
  \A i, j \in DOMAIN bookings :
    (/\ i # j
     /\ bookings[i].status = "active" /\ bookings[j].status = "active"
     /\ bookings[i].room_id = bookings[j].room_id)
      => ~StoredOverlap(i, j)

\* a total is on display for a room of the list
Quoted(s) ==
  /\ req[s].kind = "quote"
  /\ req[s].room_id \in DOMAIN localRooms[s]

QuotePrice(s)  == localRooms[s][req[s].room_id].price_per_night
QuoteLength(s) == DateTS(req[s].check_out) - DateTS(req[s].check_in)

\* C23: the computed total depends on the room price and the two dates
\* only, and for one room price p >= 0 a stay that is not longer never
\* costs more (so equal lengths cost the same).
C23_PriceMonotone ==
  \A s, t \in Sessions :
    (/\ Quoted(s) /\ Quoted(t)
     /\ QuotePrice(s) = QuotePrice(t) /\ QuotePrice(s) >= 0
     /\ QuoteLength(s) <= QuoteLength(t))
      => /\ req[s].total_price <= req[t].total_price
         /\ req[s].total_price
              = Ceil(QuoteLength(s), 24) * QuotePrice(s)

C23_Witness ==
  \E s, t \in Sessions :
    /\ Quoted(s) /\ Quoted(t)
    /\ QuotePrice(s) = 200 /\ QuotePrice(t) = 200
    /\ QuoteLength(s) < 0 /\ QuoteLength(t) = 48
    /\ req[s].total_price < 0 /\ req[t].total_price = 400

\* C27: whenever no CreateBooking or CheckOut is under way, a room whose
\* status is 'occupied' has at least one active booking, over any sequence
\* of CreateBooking, CheckOut and guest deletion (no room is edited by
\* hand in these behaviours).
C27_OccupiedRoomHasActiveBooking ==
  (\A s \in Sessions : pc[s] = "idle")
    => \A r \in DOMAIN rooms :
         rooms[r].status = "occupied"
           => \E i \in DOMAIN bookings :
                bookings[i].room_id = r /\ bookings[i].status = "active"

\* C25: the total CreateBooking persists is worked out from the room's
\* price_per_night as the store holds it when the booking is created: a
\* submission that goes on to the insert carries nights * the stored price,
\* also when the price was changed after the page's last load.
C25_PriceFromStoreAtCreation ==
  [][\A s \in Sessions, f \in Forms :
       (Submit(s, f) /\ pc'[s] = "insert" /\ f.room_id \in DOMAIN rooms)
         => req'[s].total_price =
              Ceil(DateTS(f.check_out_date) - DateTS(f.check_in_date), 24)
                * rooms[f.room_id].price_per_night]_vars

\* C29: a save of the room edit form whose status field was not touched
\* leaves the room's status in the store as it was just before the save.
C29_UntouchedStatusKept ==
  [][\A s \in Sessions :
       (/\ handleSubmitEdit(s)
        /\ last'.toast = "room_saved"
        /\ "status" \notin req[s].touched
        /\ req[s].room \in DOMAIN rooms)
         => rooms'[req[s].room].status = rooms[req[s].room].status]_vars

====
